---------------------------- MODULE Spec2Model ----------------------------
(***************************************************************************)
(* The MCQ extraction pipeline of server.js: parseMCQQuestions (JSON tier, *)
(* structured-text tier) and createFallbackQuestionsFromText.              *)
(*                                                                         *)
(* Texts are TLA+ strings, read character by character (At, SubSeq, Len),  *)
(* positions are 1-based.  The regular expressions of the source are       *)
(* written out as matchers with the leftmost / greedy / lazy choices the   *)
(* JavaScript engine makes.  A JavaScript value (the elements of the       *)
(* returned array) is a record [t, s, n, k, e]: its type, its string       *)
(* content, its integer value, its keys and its elements.                  *)
(*                                                                         *)
(* Domain of the modelled inputs: characters are ASCII letters, digits,    *)
(* space, newline and the punctuation that the source's patterns look at;  *)
(* no backslash, no exponent notation in numbers.                          *)
(***************************************************************************)
EXTENDS Integers, Sequences, FiniteSets, TLC

(***************************************************************************)
(* Characters and scanning                                                 *)
(***************************************************************************)
At(s, i) == IF i >= 1 /\ i <= Len(s) THEN SubSeq(s, i, i) ELSE ""

\* \s of the source's patterns
IsSpace(c) == c \in {" ", "\n", "\t", "\r"}

\* \d
IsDigit(c) == c \in {"0", "1", "2", "3", "4", "5", "6", "7", "8", "9"}

IsUpper(c) == c \in {"A", "B", "C", "D", "E", "F", "G", "H", "I", "J", "K", "L", "M",
                     "N", "O", "P", "Q", "R", "S", "T", "U", "V", "W", "X", "Y", "Z"}

IsLower(c) == c \in {"a", "b", "c", "d", "e", "f", "g", "h", "i", "j", "k", "l", "m",
                     "n", "o", "p", "q", "r", "s", "t", "u", "v", "w", "x", "y", "z"}

\* \w
IsWordChar(c) == IsUpper(c) \/ IsLower(c) \/ IsDigit(c) \/ c = "_"

\* the least i in lo..hi with P(i), or 0.
First(lo, hi, P(_)) ==
    IF \E j \in lo..hi : P(j)
    THEN CHOOSE j \in lo..hi : P(j) /\ \A m \in lo..(j - 1) : ~P(m)
    ELSE 0

\* the greatest i in lo..hi with P(i), or 0.
Last(lo, hi, P(_)) ==
    IF \E j \in lo..hi : P(j)
    THEN CHOOSE j \in lo..hi : P(j) /\ \A m \in (j + 1)..hi : ~P(m)
    ELSE 0

\* the positions of a set, in increasing order
Ascending(S) ==
    LET rank == [x \in S |-> Cardinality({y \in S : y <= x})]
    IN [k \in 1..Cardinality(S) |-> CHOOSE x \in S : rank[x] = k]


\* j, or the position after the end of s when j = 0 (nothing found)
OrEnd(s, j) == IF j = 0 THEN Len(s) + 1 ELSE j

\* the first position >= i that holds no white space (Len(s) + 1 at the end): \s*
SkipSpace(s, i) == OrEnd(s, First(i, Len(s), LAMBDA m : ~IsSpace(At(s, m))))

\* the first position >= i that holds no digit: \d+ taken greedily
SkipDigits(s, i) == OrEnd(s, First(i, Len(s), LAMBDA m : ~IsDigit(At(s, m))))

\* s from its first to its last character that is no white space
TrimBetween(s, a, b) == IF a = 0 THEN "" ELSE SubSeq(s, a, b)

\* String.prototype.trim
trim(s) ==
    TrimBetween(s, First(1, Len(s), LAMBDA m : ~IsSpace(At(s, m))),
                   Last(1, Len(s), LAMBDA m : ~IsSpace(At(s, m))))

\* String.prototype.indexOf(needle, from): the first position >= from, or 0
IndexOfFrom(s, needle, from) ==
    First(from, Len(s) - Len(needle) + 1,
          LAMBDA m : SubSeq(s, m, m + Len(needle) - 1) = needle)

\* String.prototype.includes
includes(s, needle) == IndexOfFrom(s, needle, 1) > 0

\* Array.prototype.slice(0, n)
slice(arr, n) == SubSeq(arr, 1, IF n < Len(arr) THEN n ELSE Len(arr))

\* Number -> decimal string, as a template literal prints it
DigitChars == "0123456789"

RECURSIVE IntToString(_)
IntToString(n) ==
    IF n < 10 THEN SubSeq(DigitChars, n + 1, n + 1)
    ELSE IntToString(n \div 10) \o SubSeq(DigitChars, (n % 10) + 1, (n % 10) + 1)

\* s holds lit at position i
StartsWithAt(s, i, lit) ==
    i >= 1 /\ i + Len(lit) - 1 <= Len(s) /\ SubSeq(s, i, i + Len(lit) - 1) = lit

(***************************************************************************)
(* JavaScript values                                                       *)
(***************************************************************************)
JUndefined == [t |-> "undefined", s |-> "", n |-> 0, k |-> <<>>, e |-> <<>>]

JLiteral(word) == [t |-> word, s |-> "", n |-> 0, k |-> <<>>, e |-> <<>>]

JString(str) == [t |-> "string", s |-> str, n |-> 0, k |-> <<>>, e |-> <<>>]

\* a number: its integer part n and its source text s (s = IntToString(n) for
\* a non-negative integer)
JNumberLex(lex, int) == [t |-> "number", s |-> lex, n |-> int, k |-> <<>>, e |-> <<>>]

JNumber(int) == JNumberLex(IntToString(int), int)

JArray(elems) == [t |-> "array", s |-> "", n |-> 0, k |-> <<>>, e |-> elems]

JObject(keys, vals) == [t |-> "object", s |-> "", n |-> 0, k |-> keys, e |-> vals]

\* the place of key among keys, or 0
IndexOfKey(keys, key) == First(1, Len(keys), LAMBDA i : keys[i] = key)

\* obj[key], undefined when obj is no object or has no such key
Field(v, key) ==
    IF v.t = "object" /\ IndexOfKey(v.k, key) > 0 THEN v.e[IndexOfKey(v.k, key)]
    ELSE JUndefined

\* the record literal { question, options, correctAnswer } of lines 285-289,
\* 349-353 and 361-370
QuestionRecord(question, options, correctAnswer) ==
    JObject(<<"question", "options", "correctAnswer">>,
            <<JString(question),
              JArray([i \in 1..Len(options) |-> JString(options[i])]),
              JNumber(correctAnswer)>>)

(***************************************************************************)
(* JSON.parse  (line 246)                                                  *)
(*                                                                         *)
(* A recursive-descent reading of the JSON grammar.  Each step hands what  *)
(* it has read to the next one: ParseValue -> ValueAt, ParseElements ->    *)
(* ElementParsed -> ElementEnd, ParseMembers -> KeyParsed -> ColonAt ->    *)
(* MemberParsed -> MemberEnd.                                              *)
(***************************************************************************)
ParseFail == [ok |-> FALSE, pos |-> 0, val |-> JUndefined]

ParseOk(pos, val) == [ok |-> TRUE, pos |-> pos, val |-> val]

RECURSIVE StringToInt(_)
StringToInt(digits) ==
    IF Len(digits) = 0 THEN 0
    ELSE 10 * StringToInt(SubSeq(digits, 1, Len(digits) - 1))
         + (IndexOfFrom(DigitChars, SubSeq(digits, Len(digits), Len(digits)), 1) - 1)

\* the string that opened at the quote at i, close being the first quote,
\* backslash or raw control character behind it
StringClosedAt(s, i, close) ==
    IF close = 0 \/ At(s, close) # "\"" THEN ParseFail
    ELSE ParseOk(close + 1, JString(SubSeq(s, i + 1, close - 1)))

\* a JSON string starting at the quote at i: no raw control character inside
ParseString(s, i) ==
    StringClosedAt(s, i, First(i + 1, Len(s),
                               LAMBDA m : At(s, m) \in {"\"", "\\", "\n", "\t", "\r"}))

\* the number read from i: its digits are d0..de-1, its fraction ends before fe
NumberOf(s, i, d0, de, fe) ==
    IF de = d0 \/ (At(s, d0) = "0" /\ de > d0 + 1) THEN ParseFail
    ELSE IF At(s, de) = "." /\ fe = de + 1 THEN ParseFail
    ELSE ParseOk(fe, JNumberLex(SubSeq(s, i, fe - 1),
                                IF d0 > i THEN 0 - StringToInt(SubSeq(s, d0, de - 1))
                                ELSE StringToInt(SubSeq(s, d0, de - 1))))

NumberFraction(s, i, d0, de) ==
    NumberOf(s, i, d0, de, IF At(s, de) = "." THEN SkipDigits(s, de + 1) ELSE de)

NumberDigits(s, i, d0) == NumberFraction(s, i, d0, SkipDigits(s, d0))

\* a JSON number starting at i: -? (0 | [1-9][0-9]*) (. [0-9]+)?
ParseNumber(s, i) == NumberDigits(s, i, IF At(s, i) = "-" THEN i + 1 ELSE i)

SetMemberAt(keys, vals, key, val, at) ==
    IF at > 0 THEN <<keys, [vals EXCEPT ![at] = val]>>
    ELSE <<Append(keys, key), Append(vals, val)>>

\* obj[key] = val while parsing: a repeated key keeps its place, takes the new value
SetMember(keys, vals, key, val) == SetMemberAt(keys, vals, key, val, IndexOfKey(keys, key))

RECURSIVE ParseValue(_, _), ValueAt(_, _), ParseElements(_, _, _), ElementParsed(_, _, _),
          ElementEnd(_, _, _, _), ParseMembers(_, _, _, _), KeyParsed(_, _, _, _),
          ColonAt(_, _, _, _, _), MemberParsed(_, _, _), MemberEnd(_, _, _)
\* a value, after white space
ParseValue(s, i0) == ValueAt(s, SkipSpace(s, i0))

ValueAt(s, i) ==
    CASE At(s, i) = "\"" -> ParseString(s, i)
      [] At(s, i) = "[" -> ParseElements(s, i + 1, <<>>)
      [] At(s, i) = "{" -> ParseMembers(s, SkipSpace(s, i + 1), <<>>, <<>>)
      [] IsDigit(At(s, i)) \/ At(s, i) = "-" -> ParseNumber(s, i)
      [] StartsWithAt(s, i, "true") -> ParseOk(i + 4, JLiteral("true"))
      [] StartsWithAt(s, i, "false") -> ParseOk(i + 5, JLiteral("false"))
      [] StartsWithAt(s, i, "null") -> ParseOk(i + 4, JLiteral("null"))
      [] OTHER -> ParseFail

\* the elements of an array from i on, acc being those read; "]" closes an
\* array only at its start or after an element
ParseElements(s, i, acc) ==
    IF acc = <<>> /\ At(s, SkipSpace(s, i)) = "]" THEN ParseOk(SkipSpace(s, i) + 1, JArray(<<>>))
    ELSE ElementParsed(s, ParseValue(s, i), acc)

ElementParsed(s, r, acc) ==
    IF ~r.ok THEN ParseFail ELSE ElementEnd(s, SkipSpace(s, r.pos), r.val, acc)

ElementEnd(s, j, val, acc) ==
    IF At(s, j) = "," THEN ParseElements(s, j + 1, Append(acc, val))
    ELSE IF At(s, j) = "]" THEN ParseOk(j + 1, JArray(Append(acc, val)))
    ELSE ParseFail

\* the members of an object from j on (no white space at j)
ParseMembers(s, j, keys, vals) ==
    IF keys = <<>> /\ At(s, j) = "}" THEN ParseOk(j + 1, JObject(<<>>, <<>>))
    ELSE IF At(s, j) = "\"" THEN KeyParsed(s, ParseString(s, j), keys, vals)
    ELSE ParseFail

KeyParsed(s, key, keys, vals) ==
    IF ~key.ok THEN ParseFail ELSE ColonAt(s, SkipSpace(s, key.pos), key.val.s, keys, vals)

ColonAt(s, c, key, keys, vals) ==
    IF At(s, c) = ":" THEN MemberParsed(s, ParseValue(s, c + 1), <<key, keys, vals>>)
    ELSE ParseFail

MemberParsed(s, r, kkv) ==
    IF ~r.ok THEN ParseFail
    ELSE MemberEnd(s, SkipSpace(s, r.pos), SetMember(kkv[2], kkv[3], kkv[1], r.val))

MemberEnd(s, d, kv) ==
    IF At(s, d) = "," THEN ParseMembers(s, SkipSpace(s, d + 1), kv[1], kv[2])
    ELSE IF At(s, d) = "}" THEN ParseOk(d + 1, JObject(kv[1], kv[2]))
    ELSE ParseFail

\* the whole text must be one value
Parsed(s, r) ==
    IF r.ok /\ SkipSpace(s, r.pos) = Len(s) + 1
    THEN [threw |-> FALSE, val |-> r.val]
    ELSE [threw |-> TRUE, val |-> JUndefined]

\* JSON.parse(s): the value, or threw = TRUE for a SyntaxError
JSONparse(s) == Parsed(s, ParseValue(s, 1))

\* -------------------------------------------------------------------------
\* jsonRegex = /\[\s*\{\s*"question"[\s\S]*\}\s*\]/     (line 242)
\* -------------------------------------------------------------------------
\* "{", \s*, "\"question\"" from a: the position after it, or 0
OpenerKeyEnd(s, a, b) ==
    IF At(s, a) = "{" /\ StartsWithAt(s, b, "\"question\"") THEN b + Len("\"question\"") ELSE 0

OpenerBrace(s, a) == OpenerKeyEnd(s, a, SkipSpace(s, a + 1))

\* "[", \s*, "{", \s*, "\"question\"" from i: the position after it, or 0
OpenerEnd(s, i) == IF At(s, i) = "[" THEN OpenerBrace(s, SkipSpace(s, i + 1)) ELSE 0

CloserBracket(s, b) == IF At(s, b) = "]" THEN b ELSE 0

\* "}", \s*, "]" from p: the position of the "]", or 0
CloserEnd(s, p) == IF At(s, p) = "}" THEN CloserBracket(s, SkipSpace(s, p + 1)) ELSE 0

\* the text from the opener at start to the closer at lastCloser
MatchBetween(mcqText, start, lastCloser) ==
    IF start = 0 THEN "" ELSE SubSeq(mcqText, start, CloserEnd(mcqText, lastCloser))

\* the match, given the last closer of the text: it starts at the leftmost
\* opener that the closer follows
MatchUpTo(mcqText, lastCloser) ==
    IF lastCloser = 0 THEN ""
    ELSE MatchBetween(mcqText,
                      First(1, lastCloser,
                            LAMBDA i : OpenerEnd(mcqText, i) \in 1..lastCloser),
                      lastCloser)

\* mcqText.match(jsonRegex): the leftmost opener that some closer follows, and,
\* [\s\S]* being greedy, the last closer of the text.  "" stands for null: a
\* match is never empty.
jsonRegexMatch(mcqText) ==
    MatchUpTo(mcqText, Last(1, Len(mcqText), LAMBDA p : CloserEnd(mcqText, p) > 0))

(***************************************************************************)
(* Program constants                                                       *)
(***************************************************************************)
\* the number of questions parseMCQQuestions asks for (lines 247, 248, 256,
\* 295, 298, 302)
COUNT == 10

\* the least number of structured-text questions that is returned (line 294)
MinStructured == 5

\* the number of options of a record (lines 284, 287, 347)
NumOptions == 4

\* a capture group [lo, hi] of a match; lo = 0: no match
NoMatch == [lo |-> 0, hi |-> 0]

\* a if it is a match, else b
FirstOr(a, b) == IF a.lo > 0 THEN a ELSE b

\* -------------------------------------------------------------------------
\* questionRegex = /(?:^|\n)(?:\d+\.\s*)([^?]+\?)/g     (line 253)
\* -------------------------------------------------------------------------
\* ([^?]+\?) from p to the first "?" behind p, at q
QuestionGroupTo(p, q) == IF q = 0 THEN NoMatch ELSE [lo |-> p, hi |-> q]

\* \s* ([^?]+\?) behind the "." at de, p being the first position after the
\* white space.  \s* is greedy: the group starts at p and runs to the first
\* "?" behind it; when p holds "?", \s* gives one character back to [^?]+.
QuestionGroupFrom(s, de, p) ==
    IF p > Len(s) THEN NoMatch
    ELSE IF At(s, p) # "?" THEN QuestionGroupTo(p, IndexOfFrom(s, "?", p + 1))
    ELSE IF p > de + 1 THEN [lo |-> p - 1, hi |-> p]
    ELSE NoMatch

\* \. \s* ([^?]+\?) with the digits d..de-1 read
QuestionAfterDigits(s, d, de) ==
    IF de = d \/ At(s, de) # "." THEN NoMatch
    ELSE QuestionGroupFrom(s, de, SkipSpace(s, de + 1))

\* \d+ \. \s* ([^?]+\?) with the digits starting at d
QuestionAt(s, d) == QuestionAfterDigits(s, d, SkipDigits(s, d))

\* the group of the match that starts at i: (?:^|\n) is the start of the text
\* (tried first) or a newline
QuestionMatchAt(s, i) ==
    FirstOr(IF i = 1 THEN QuestionAt(s, 1) ELSE NoMatch,
            IF At(s, i) = "\n" THEN QuestionAt(s, i + 1) ELSE NoMatch)

\* [...mcqText.matchAll(questionRegex)]: the groups [1] of the successive
\* matches, each search starting where the last match ended
RECURSIVE questionMatchesFrom(_, _), questionMatchesAt(_, _), questionMatchesWith(_, _)
questionMatchesFrom(mcqText, from) ==
    questionMatchesAt(mcqText,
                      First(from, Len(mcqText), LAMBDA m : QuestionMatchAt(mcqText, m).lo > 0))

\* the match found at i (0: none) and those behind it
questionMatchesAt(mcqText, i) ==
    IF i = 0 THEN <<>> ELSE questionMatchesWith(mcqText, QuestionMatchAt(mcqText, i))

questionMatchesWith(mcqText, g) ==
    <<SubSeq(mcqText, g.lo, g.hi)>> \o questionMatchesFrom(mcqText, g.hi + 1)

questionMatches(mcqText) == questionMatchesFrom(mcqText, 1)

(***************************************************************************)
(* optionsText  (line 258)                                                 *)
(***************************************************************************)
\* the piece from after to the next occurrence of questionText, at g (0: none)
PieceUpTo(mcqText, after, g) == SubSeq(mcqText, after, IF g = 0 THEN Len(mcqText) ELSE g - 1)

\* the piece behind the first occurrence of questionText, which ends before after
PieceAfter(mcqText, questionText, after) ==
    PieceUpTo(mcqText, after, IndexOfFrom(mcqText, questionText, after))

\* a match of /(?:\d+\.\s*)|(?:\n\s*\n)/ starts at i
ZoneEndAt(s, i) ==
    \/ IsDigit(At(s, i)) /\ At(s, SkipDigits(s, i)) = "."
    \/ At(s, i) = "\n" /\ \E j \in (i + 1)..(SkipSpace(s, i + 1) - 1) : At(s, j) = "\n"

\* piece up to the first match, at m (0: none)
ZoneUpTo(piece, m) == IF m = 0 THEN piece ELSE SubSeq(piece, 1, m - 1)

\* piece.split(/(?:\d+\.\s*)|(?:\n\s*\n)/)[0]
ZoneOf(piece) == ZoneUpTo(piece, First(1, Len(piece), LAMBDA i : ZoneEndAt(piece, i)))

\* mcqText.split(questionText)[1], f being the first occurrence of
\* questionText: the text between it and the next occurrence (or the end);
\* undefined (here "") when there is no occurrence
SplitSecondPiece(mcqText, questionText, f) ==
    IF f = 0 THEN "" ELSE ZoneOf(PieceAfter(mcqText, questionText, f + Len(questionText)))

\* mcqText.split(questionText)[1]?.split(...)[0]; "" also stands for undefined
\* (both are falsy at line 260)
optionsTextOf(mcqText, questionText) ==
    SplitSecondPiece(mcqText, questionText, IndexOfFrom(mcqText, questionText, 1))

\* -------------------------------------------------------------------------
\* optionRegex = /(?:^|\n)(?:[A-D]\.\s*)(.+?)(?=\n[A-D]\.|$)/g  (line 262)
\* -------------------------------------------------------------------------
IsOptionLetter(c) == c \in {"A", "B", "C", "D"}

\* . does not match a line terminator
IsLineTerminator(c) == c \in {"\n", "\r"}

\* the first line terminator at or after g (Len(s) + 1 when there is none)
LineEnd(s, g) == OrEnd(s, First(g, Len(s), LAMBDA m : IsLineTerminator(At(s, m))))

\* the lookahead (?=\n[A-D]\.|$) at nl: the end of the text ($ without the m
\* flag) or a newline followed by a lettered line
LookaheadAt(s, nl) ==
    \/ nl = Len(s) + 1
    \/ At(s, nl) = "\n" /\ IsOptionLetter(At(s, nl + 1)) /\ At(s, nl + 2) = "."

\* (.+?)(?=\n[A-D]\.|$) with the group starting at g: the lazy group grows to
\* the end of its line at most, and stops where the lookahead holds; inside a
\* line the lookahead never holds
OptionGroupOk(s, g) ==
    g <= Len(s) /\ ~IsLineTerminator(At(s, g)) /\ LookaheadAt(s, LineEnd(s, g))

\* the group that starts at g (0: no match)
OptionGroupAt(s, g) == IF g = 0 THEN NoMatch ELSE [lo |-> g, hi |-> LineEnd(s, g) - 1]

\* [A-D]\.\s*(.+?)(?=...) with the letter at l: \s* is greedy and gives white
\* space back until the group matches
OptionAt(s, l) ==
    IF IsOptionLetter(At(s, l)) /\ At(s, l + 1) = "."
    THEN OptionGroupAt(s, Last(l + 2, SkipSpace(s, l + 2), LAMBDA m : OptionGroupOk(s, m)))
    ELSE NoMatch

OptionMatchAt(s, i) ==
    FirstOr(IF i = 1 THEN OptionAt(s, 1) ELSE NoMatch,
            IF At(s, i) = "\n" THEN OptionAt(s, i + 1) ELSE NoMatch)

\* [...optionsText.matchAll(optionRegex)] and the loop of lines 265-267:
\* optionMatch[1].trim() of the successive matches
RECURSIVE optionMatchesFrom(_, _), optionMatchesAt(_, _), optionMatchesWith(_, _)
optionMatchesFrom(optionsText, from) ==
    optionMatchesAt(optionsText,
                    First(from, Len(optionsText),
                          LAMBDA m : OptionMatchAt(optionsText, m).lo > 0))

optionMatchesAt(optionsText, i) ==
    IF i = 0 THEN <<>> ELSE optionMatchesWith(optionsText, OptionMatchAt(optionsText, i))

optionMatchesWith(optionsText, g) ==
    <<trim(SubSeq(optionsText, g.lo, g.hi))>> \o optionMatchesFrom(optionsText, g.hi + 1)

optionMatches(optionsText) == optionMatchesFrom(optionsText, 1)

\* -------------------------------------------------------------------------
\* correctAnswer  (lines 269-282)
\* -------------------------------------------------------------------------
UpperChars == "ABCDEFGHIJKLMNOPQRSTUVWXYZ"

LowerChars == "abcdefghijklmnopqrstuvwxyz"

LowerChar(c) ==
    IF IsUpper(c)
    THEN At(LowerChars, CHOOSE i \in 1..Len(UpperChars) : At(UpperChars, i) = c)
    ELSE c

\* String.prototype.toLowerCase, character by character (the two halves of s)
RECURSIVE toLowerCase(_)
toLowerCase(s) ==
    IF Len(s) = 0 THEN ""
    ELSE IF Len(s) = 1 THEN LowerChar(s)
    ELSE toLowerCase(SubSeq(s, 1, Len(s) \div 2))
         \o toLowerCase(SubSeq(s, (Len(s) \div 2) + 1, Len(s)))

\* s holds lit (given in lower case) at i, whatever the case (the i flag)
StartsWithAtCI(s, i, lit) ==
    i >= 1 /\ i + Len(lit) - 1 <= Len(s)
    /\ \A k \in 1..Len(lit) : LowerChar(At(s, i + k - 1)) = At(lit, k)

\* (?:\s*lit)? from the positions ps: skipped, or taken after the white space
OptionalPart(s, ps, lit) ==
    ps \cup {SkipSpace(s, p) + Len(lit) : p \in {q \in ps : StartsWithAtCI(s, SkipSpace(s, q), lit)}}

\* /correct(?:\s*answer)?(?:\s*is)?(?:\s*:)?\s*X/i matches at i
MarkerAt(s, i, letter) ==
    /\ StartsWithAtCI(s, i, "correct")
    /\ \E p \in OptionalPart(s, OptionalPart(s, OptionalPart(s, {i + Len("correct")},
                                                               "answer"), "is"), ":") :
          LowerChar(At(s, SkipSpace(s, p))) = LowerChar(letter)

\* one condition of the if / else-if chain of lines 270-281
HasMarker(optionsText, letter) ==
    \/ includes(optionsText, "Correct: " \o letter)
    \/ includes(optionsText, "correct: " \o letter)
    \/ \E i \in 1..Len(optionsText) : MarkerAt(optionsText, i, letter)

correctAnswerOf(optionsText) ==
    IF HasMarker(optionsText, "A") THEN 0
    ELSE IF HasMarker(optionsText, "B") THEN 1
    ELSE IF HasMarker(optionsText, "C") THEN 2
    ELSE IF HasMarker(optionsText, "D") THEN 3
    ELSE 0

\* -------------------------------------------------------------------------
\* the structured-text loop  (lines 252-292)
\* -------------------------------------------------------------------------
\* lines 284-290
pushIfComplete(questionText, options, correctAnswer, questions) ==
    IF Len(options) >= NumOptions
    THEN Append(questions, QuestionRecord(questionText, slice(options, NumOptions), correctAnswer))
    ELSE questions

\* lines 260-291
withOptionsText(questionText, optionsText, questions) ==
    IF optionsText = "" THEN questions
    ELSE pushIfComplete(questionText, optionMatches(optionsText),
                        correctAnswerOf(optionsText), questions)

\* line 258 on
withQuestionText(mcqText, questionText, questions) ==
    withOptionsText(questionText, optionsTextOf(mcqText, questionText), questions)

\* one pass of the loop body for the group questionMatch of questionMatches[i]:
\* the questions after it
structuredStep(mcqText, questionMatch, questions) ==
    withQuestionText(mcqText, trim(questionMatch), questions)

\* for (let i = 0; i < questionMatches.length && questions.length < 10; i++)
RECURSIVE structuredLoop(_, _, _, _)
structuredLoop(mcqText, matches, i, questions) ==
    IF i > Len(matches) \/ Len(questions) >= COUNT THEN questions
    ELSE structuredLoop(mcqText, matches, i + 1,
                        structuredStep(mcqText, matches[i], questions))

structuredQuestions(mcqText) == structuredLoop(mcqText, questionMatches(mcqText), 1, <<>>)

\* the values of one pass of the loop: questionText (line 257), optionsText
\* (line 258), options (lines 261-267), correctAnswer (lines 269-282), and
\* whether the question was pushed (line 284)
passWith(questionText, optionsText, options, correctAnswer) ==
    [questionText |-> questionText, optionsText |-> optionsText, options |-> options,
     correctAnswer |-> correctAnswer,
     pushed |-> optionsText # "" /\ Len(options) >= NumOptions]

\* lines 258-282 for a question text; nothing is read when optionsText is falsy
passOver(questionText, optionsText) ==
    IF optionsText = "" THEN passWith(questionText, "", <<>>, 0)
    ELSE passWith(questionText, optionsText, optionMatches(optionsText),
                  correctAnswerOf(optionsText))

passOf(mcqText, questionText) ==
    passOver(questionText, optionsTextOf(mcqText, questionText))

\* the passes of the loop of line 256, which ends when 10 questions are pushed
RECURSIVE locatedLoop(_, _, _, _, _), locatedLoopWith(_, _, _, _, _)
locatedLoop(mcqText, matches, i, pushed, passes) ==
    IF i > Len(matches) \/ pushed >= COUNT THEN passes
    ELSE locatedLoopWith(mcqText, matches, i, pushed,
                         Append(passes, passOf(mcqText, trim(matches[i]))))

locatedLoopWith(mcqText, matches, i, pushed, passes) ==
    locatedLoop(mcqText, matches, i + 1,
                IF passes[Len(passes)].pushed THEN pushed + 1 ELSE pushed, passes)

locatedQuestions(mcqText) == locatedLoop(mcqText, questionMatches(mcqText), 1, 0, <<>>)

(***************************************************************************)
(* Math.random                                                             *)
(***************************************************************************)
\* The random source is a sequence u_0, u_1, ... of numbers in [0, 1).  A
\* tape is a seed in 0..RandDen-1; its k-th number is ((seed + k) mod
\* RandDen) / RandDen.
RandDen == 4

Tapes == 0..(RandDen - 1)

\* Math.floor(Math.random() * n) for the k-th call of a run (k = 0, 1, ...)
floorRandom(tape, k, n) == (((tape + k) % RandDen) * n) \div RandDen

(***************************************************************************)
(* createFallbackQuestionsFromText  (lines 306-374)                        *)
(***************************************************************************)
\* the distractors harvested per record, and filled up to (lines 320, 338)
NumDistractors == 3

\* a match of /[.?!]\s+/ starts at i
SentenceEndAt(s, i) == At(s, i) \in {".", "?", "!"} /\ IsSpace(At(s, i + 1))

\* the pieces of text between the matches that start at seps
SentencesBetween(text, seps) ==
    [k \in 1..(Len(seps) + 1) |->
        SubSeq(text,
               IF k = 1 THEN 1 ELSE SkipSpace(text, seps[k - 1] + 1),
               IF k <= Len(seps) THEN seps[k] - 1 ELSE Len(text))]

\* text.split(/[.?!]\s+/): the pieces between the matches.  A match starts at
\* a punctuation mark, so no match starts inside another one.
splitSentences(text) ==
    SentencesBetween(text, Ascending({i \in 1..Len(text) : SentenceEndAt(text, i)}))

\* the pieces of s between the runs of white space that start at seps
WordsBetween(s, seps) ==
    [k \in 1..(Len(seps) + 1) |->
        SubSeq(s,
               IF k = 1 THEN 1 ELSE SkipSpace(s, seps[k - 1]),
               IF k <= Len(seps) THEN seps[k] - 1 ELSE Len(s))]

\* s.split(/\s+/): the pieces between the runs of white space
splitWords(s) ==
    WordsBetween(s, Ascending({i \in 1..Len(s) : IsSpace(At(s, i)) /\ ~IsSpace(At(s, i - 1))}))

\* words.slice(a, b).join(' ') for the 1-based words a..b
RECURSIVE joinWords(_, _, _)
joinWords(words, a, b) ==
    IF a > b THEN ""
    ELSE IF a = b THEN words[a]
    ELSE words[a] \o " " \o joinWords(words, a + 1, b)

\* option.replace(/[,.?!:;]$/, '')
dropEndPunctuation(s) ==
    IF At(s, Len(s)) \in {",", ".", "?", "!", ":", ";"} THEN SubSeq(s, 1, Len(s) - 1) ELSE s

\* the lower-cased words of more than 4 characters
longWordsOf(ws) == {toLowerCase(ws[i]) : i \in {j \in 1..Len(ws) : Len(ws[j]) > 4}}

\* new Set(sentence.split(/\s+/).filter(w => w.length > 4).map(w => w.toLowerCase()))
wordsToAvoidOf(sentence) == longWordsOf(splitWords(sentence))

\* the option built around words[k] (lines 325-327)
optionAround(words, k) ==
    dropEndPunctuation(joinWords(words,
                                 IF k - 2 > 1 THEN k - 2 ELSE 1,
                                 IF k + 2 < Len(words) THEN k + 2 ELSE Len(words)))

\* option.length > 5 && !options.includes(option)  (line 329)
optionIsNew(option, options) ==
    Len(option) > 5 /\ \A m \in 1..Len(options) : options[m] # option

\* words[k] yields an option that is pushed (lines 324, 329)
yieldsOption(words, k, wordsToAvoid, options) ==
    /\ Len(words[k]) > 4
    /\ toLowerCase(words[k]) \notin wordsToAvoid
    /\ optionIsNew(optionAround(words, k), options)

\* options.push(option); break  for the first word k that yields one (0: none)
pushOption(words, k, options) ==
    IF k > 0 THEN Append(options, optionAround(words, k)) ELSE options

\* the loop over k of lines 323-334
harvestFrom(words, wordsToAvoid, options) ==
    pushOption(words,
               First(1, Len(words), LAMBDA m : yieldsOption(words, m, wordsToAvoid, options)),
               options)

\* the loop over j of lines 320-336: the options after sentences[j..]
RECURSIVE harvestOptions(_, _, _, _, _)
harvestOptions(sentences, i, j, wordsToAvoid, options) ==
    IF j > Len(sentences) \/ Len(options) >= NumDistractors THEN options
    ELSE harvestOptions(sentences, i, j + 1, wordsToAvoid,
                        IF i # j /\ Len(sentences[j]) > 15
                        THEN harvestFrom(splitWords(sentences[j]), wordsToAvoid, options)
                        ELSE options)

\* padOptions with "if" in place of "while": at most one option is pushed
padOnce(options) ==
    IF Len(options) >= NumDistractors THEN options
    ELSE Append(options, "Option " \o IntToString(Len(options) + 1))

\* while (options.length < 3) options.push(`Option ${options.length + 1}`)
RECURSIVE padOptions(_)
padOptions(options) ==
    IF Len(options) >= NumDistractors THEN options
    ELSE padOptions(Append(options, "Option " \o IntToString(Len(options) + 1)))

\* the position after the run of word characters that starts at a
WordRunEnd(s, a) == OrEnd(s, First(a, Len(s), LAMBDA m : ~IsWordChar(At(s, m))))

\* the runs of word characters that start at starts
WordRunsAt(sentence, starts) ==
    [k \in 1..Len(starts) |-> SubSeq(sentence, starts[k], WordRunEnd(sentence, starts[k]) - 1)]

\* sentence.match(/\b\w{4,}\b/g) || []: the maximal runs of word characters
\* (\b holds at both ends of a run and nowhere inside) of length 4 or more
correctPhrasesOf(sentence) ==
    WordRunsAt(sentence, Ascending({a \in 1..Len(sentence) :
                                      /\ IsWordChar(At(sentence, a))
                                      /\ ~IsWordChar(At(sentence, a - 1))
                                      /\ WordRunEnd(sentence, a) - a >= 4}))

\* options.splice(at, 1, item): the element at the place is replaced
spliceOver(options, at, item) ==
    SubSeq(options, 1, at) \o <<item>> \o SubSeq(options, at + 2, Len(options))

\* options.splice(at, 0, item), at 0-based
splice(options, at, item) ==
    SubSeq(options, 1, at) \o <<item>> \o SubSeq(options, at + 1, Len(options))

\* options.indexOf(item): 0-based, -1 when absent
indexOf(options, item) == First(1, Len(options), LAMBDA m : options[m] = item) - 1

\* sentence.endsWith('?') ? sentence : `${sentence}?`
asQuestion(sentence) == IF At(sentence, Len(sentence)) = "?" THEN sentence ELSE sentence \o "?"

\* lines 349-353; draws counts the calls of Math.random made so far
recordFrom(sentence, options, correctOption, draws) ==
    [record |-> QuestionRecord(asQuestion(sentence), slice(options, NumOptions),
                               indexOf(options, correctOption)),
     draws |-> draws]

\* the record with the values it was made of: the 3 distractors, the correct
\* option and the place it was spliced in at
withLocals(made, harvested, correctOption, at) ==
    [record |-> made.record, draws |-> made.draws,
     distractors |-> harvested, correctOption |-> correctOption, at |-> at]

\* options.splice(at, 0, correctOption) and the push of lines 349-353
recordAt(sentence, harvested, correctOption, at, draws) ==
    withLocals(recordFrom(sentence, splice(harvested, at, correctOption), correctOption, draws),
               harvested, correctOption, at)

\* line 347: the correct option is spliced in at a random place
recordWith(sentence, harvested, correctOption, tape, draws) ==
    recordAt(sentence, harvested, correctOption, floorRandom(tape, draws, NumOptions),
             draws + 1)

\* lines 342-345: a random phrase of the sentence, or the fixed text (no call
\* of Math.random then)
recordOf(sentence, harvested, correctPhrases, tape, draws) ==
    IF Len(correctPhrases) > 0
    THEN recordWith(sentence, harvested,
                    correctPhrases[floorRandom(tape, draws, Len(correctPhrases)) + 1],
                    tape, draws + 1)
    ELSE recordWith(sentence, harvested, "Correct option", tape, draws)

\* lines 317-353 for the trimmed sentence of sentences[i]
recordOfSentence(sentences, i, sentence, tape, draws) ==
    recordOf(sentence,
             padOptions(harvestOptions(sentences, i, 1, wordsToAvoidOf(sentence), <<>>)),
             correctPhrasesOf(sentence), tape, draws)

\* the record built from sentences[i] and the calls of Math.random after it
sentenceRecord(sentences, i, tape, draws) ==
    recordOfSentence(sentences, i, trim(sentences[i]), tape, draws)

\* a sentence is turned into a question (line 315)
isQuestionWorthy(sentence) == includes(sentence, "?") \/ Len(sentence) > 30

\* for (let i = 0; i < sentences.length && questionIndex < count; i++): the
\* loop passes over the sentences that are not question-worthy, so it is run
\* here over worthy, the indices of the worthy ones in order, from its w-th on
RECURSIVE sentenceLoop(_, _, _, _, _, _, _, _), sentenceLoopWith(_, _, _, _, _, _, _, _)
sentenceLoop(sentences, worthy, count, w, questions, tape, draws, mades) ==
    IF w > Len(worthy) \/ Len(questions) >= count
    THEN [questions |-> questions, draws |-> draws, mades |-> mades]
    ELSE sentenceLoopWith(sentences, worthy, count, w, questions, tape,
                          sentenceRecord(sentences, worthy[w], tape, draws), mades)

\* the loop after the record made of the w-th worthy sentence; mades keeps
\* what each record was made of
sentenceLoopWith(sentences, worthy, count, w, questions, tape, made, mades) ==
    sentenceLoop(sentences, worthy, count, w + 1, Append(questions, made.record),
                 tape, made.draws, Append(mades, made))

worthySentences(sentences) ==
    Ascending({i \in 1..Len(sentences) : isQuestionWorthy(trim(sentences[i]))})

\* a placeholder whose number is shifted by the random draw
placeholderRecordDrawn(idx, tape, draws) ==
    QuestionRecord("Question " \o IntToString(idx + 1 + floorRandom(tape, draws, NumOptions))
                       \o " related to the subject?",
                   <<"First possible answer", "Second possible answer",
                     "Third possible answer", "Fourth possible answer">>,
                   floorRandom(tape, draws, NumOptions))

\* the placeholder record (lines 360-370)
placeholderRecord(idx, tape, draws) ==
    QuestionRecord("Question " \o IntToString(idx + 1) \o " related to the subject?",
                   <<"First possible answer", "Second possible answer",
                     "Third possible answer", "Fourth possible answer">>,
                   floorRandom(tape, draws, NumOptions))

\* while (questions.length < count)
RECURSIVE placeholderLoop(_, _, _, _)
placeholderLoop(questions, count, tape, draws) ==
    IF Len(questions) >= count THEN questions
    ELSE placeholderLoop(Append(questions, placeholderRecord(Len(questions), tape, draws)),
                         count, tape, draws + 1)

\* lines 358-373, after the loop over the sentences
fillUp(fromSentences, count, tape) ==
    slice(placeholderLoop(fromSentences.questions, count, tape, fromSentences.draws), count)

\* the returned questions, and what the sentence records were made of
fallbackWith(fromSentences, count, tape) ==
    [questions |-> fillUp(fromSentences, count, tape), made |-> fromSentences.mades]

\* lines 312-373
fallbackOver(sentences, count, tape) ==
    fallbackWith(sentenceLoop(sentences, worthySentences(sentences), count, 1, <<>>, tape, 0,
                              <<>>),
                 count, tape)

\* one run of createFallbackQuestionsFromText
fallbackRun(text, count, tape) == fallbackOver(splitSentences(text), count, tape)

createFallbackQuestionsFromText(text, count, tape) == fallbackRun(text, count, tape).questions

(***************************************************************************)
(* The two tiers of parseMCQQuestions as functions of the text             *)
(***************************************************************************)
\* lines 247-249
jsonTierParsed(parsed) ==
    IF parsed.threw THEN [kind |-> "throw", questions |-> <<>>]
    ELSE IF parsed.val.t = "array" /\ Len(parsed.val.e) >= COUNT
         THEN [kind |-> "return", questions |-> slice(parsed.val.e, COUNT)]
    ELSE [kind |-> "insufficient", questions |-> <<>>]

\* lines 245-250
jsonTierOf(match) ==
    IF match = "" THEN [kind |-> "insufficient", questions |-> <<>>]
    ELSE jsonTierParsed(JSONparse(match))

\* lines 242-250: "return" with the questions, "insufficient" (fall through
\* to line 252) or "throw" (JSON.parse raised a SyntaxError)
jsonTier(mcqText) == jsonTierOf(jsonRegexMatch(mcqText))

\* structuredTierOf without the threshold of line 294: any question found is
\* returned
acceptAny(questions) ==
    [kind |-> IF Len(questions) >= 1 THEN "return" ELSE "insufficient",
     questions |-> slice(questions, COUNT),
     accepted |-> Len(questions)]

\* lines 294-296
structuredTierOf(questions) ==
    [kind |-> IF Len(questions) >= MinStructured THEN "return" ELSE "insufficient",
     questions |-> slice(questions, COUNT),
     accepted |-> Len(questions)]

\* lines 252-296: "return" with the questions, or "insufficient" (line 298)
structuredTier(mcqText) == structuredTierOf(structuredQuestions(mcqText))

\* exceptionTarget were JSON.parse called outside the try block: the
\* exception leaves the function
exceptionEscapes == "Caller"

\* where an exception raised at lines 242-298 continues: the catch block of
\* line 300 (the try of line 241 encloses the whole body)
exceptionTarget == "Catch"

(***************************************************************************)
(* Inputs: the texts the text-generation service may answer with           *)
(***************************************************************************)
\* the largest number of elements of a JSON array in an input
MaxElems == 11

\* the largest number of numbered question blocks in an input
MaxBlocks == 11

\* the largest number of sentences of a prose input
MaxSentences == 3

\* the largest count createFallbackQuestionsFromText is called with directly
MaxCount == 3

RECURSIVE joinStrings(_, _)
joinStrings(parts, sep) ==
    IF Len(parts) = 0 THEN ""
    ELSE IF Len(parts) = 1 THEN parts[1]
    ELSE parts[1] \o sep \o joinStrings(Tail(parts), sep)

\* JSON text of a value (strings of the inputs need no escaping)
RECURSIVE JSONstringify(_)
JSONstringify(v) ==
    CASE v.t = "string" -> "\"" \o v.s \o "\""
      [] v.t = "number" -> v.s
      [] v.t = "array" -> "[" \o joinStrings([i \in 1..Len(v.e) |-> JSONstringify(v.e[i])], ",") \o "]"
      [] v.t = "object" ->
            "{" \o joinStrings([i \in 1..Len(v.k) |->
                                  "\"" \o v.k[i] \o "\":" \o JSONstringify(v.e[i])], ",") \o "}"
      [] OTHER -> v.t

\* the array, on one line or one element per line
stringifyArray(elems, layout) ==
    IF layout = "pretty"
    THEN "[\n  " \o joinStrings([i \in 1..Len(elems) |-> JSONstringify(elems[i])], ",\n  ") \o "\n]"
    ELSE JSONstringify(JArray(elems))

JsonKinds == {"wellFormed", "threeOptions", "answerOutOfRange", "sameOptions", "optionsFirst"}

\* the i-th element of an array of a kind; only "wellFormed" and
\* "optionsFirst" are well-formed question objects
JsonElem(kind, i) ==
    LET question == "Item " \o IntToString(i) \o "?"
    IN CASE kind = "wellFormed" -> QuestionRecord(question, <<"a", "b", "c", "d">>, i % 4)
         [] kind = "threeOptions" -> QuestionRecord(question, <<"a", "b", "c">>, i % 3)
         [] kind = "answerOutOfRange" -> QuestionRecord(question, <<"a", "b", "c", "d">>, 7)
         [] kind = "sameOptions" -> QuestionRecord(question, <<"a", "a", "b", "c">>, i % 4)
         [] kind = "optionsFirst" ->
               JObject(<<"options", "question", "correctAnswer">>,
                       <<JArray(<<JString("a"), JString("b"), JString("c"), JString("d")>>),
                         JString(question), JNumber(i % 4)>>)

JsonArray(kind, n) == [i \in 1..n |-> JsonElem(kind, i)]

JsonSizes == {1, COUNT - 1} \cup (COUNT..MaxElems)

JsonPrefixes == {"", "Here are your questions:\n"}

JsonSuffixes == {"", "\nGood luck!", "\nEvery item has the form [{...}]"}

\* how a numbered question block is laid out: its option lines, then a blank
\* line ("blankLine", "sameOptions": two equal options); a "Correct: B" line
\* after the option lines ("markerAfter"), before them ("markerBefore") or on
\* the line of option D ("markerInline"); no blank line between the blocks
\* ("tight")
StructuredLayouts ==
    {"blankLine", "markerAfter", "markerBefore", "markerInline", "tight", "sameOptions"}

BlockQuestion(i) == "Item " \o IntToString(i) \o "?"

BlockOptions(layout) ==
    IF layout = "sameOptions" THEN <<"a", "a", "b", "c">> ELSE <<"a", "b", "c", "d">>

\* the i-th numbered question with its lettered option lines
Block(layout, i) ==
    LET head == IntToString(i) \o ". " \o BlockQuestion(i)
        o == BlockOptions(layout)
        lines == "\nA. " \o o[1] \o "\nB. " \o o[2] \o "\nC. " \o o[3] \o "\nD. " \o o[4]
    IN CASE layout = "markerAfter" -> head \o lines \o "\nCorrect: B"
         [] layout = "markerInline" -> head \o lines \o " Correct: B"
         [] layout = "markerBefore" -> head \o "\nCorrect: B" \o lines
         [] OTHER -> head \o lines

\* phrasings of the correct-answer marker
MarkerPhrases ==
    {"Correct: C", "correct is A", "Correct is C", "correct answer is: D",
     "CORRECT ANSWER C", "Correct answer: B", "The correct answer is B"}

\* the i-th numbered question, a marker line, then the lettered option lines
PhrasedBlock(phrase, i) ==
    IntToString(i) \o ". " \o BlockQuestion(i) \o "\n" \o phrase
    \o "\nA. a\nB. b\nC. c\nD. d"

\* the question every block of the layout "sameQuestion" asks
RepeatedQuestion == "Which item?"

\* the options of its i-th block: a, b, c, d in the first, e, f, g, h in the others
RepeatedOptions(i) == IF i = 1 THEN <<"a", "b", "c", "d">> ELSE <<"e", "f", "g", "h">>

\* the i-th numbered block of the layout "sameQuestion"
RepeatedBlock(i) ==
    IntToString(i) \o ". " \o RepeatedQuestion
    \o "\nA. " \o RepeatedOptions(i)[1] \o "\nB. " \o RepeatedOptions(i)[2]
    \o "\nC. " \o RepeatedOptions(i)[3] \o "\nD. " \o RepeatedOptions(i)[4]

\* prose before the numbered blocks that quotes the first question
QuotingPrefix == "Remember Item 1? from last week.\n\n"

\* the question of the i-th block of a structured input
QuestionOfBlock(in, i) ==
    IF in.layout = "sameQuestion" THEN RepeatedQuestion ELSE BlockQuestion(i)

\* the i-th block of a structured input
BlockOf(in, i) ==
    CASE in.layout = "phrased" -> PhrasedBlock(in.kind, i)
      [] in.layout = "sameQuestion" -> RepeatedBlock(i)
      [] OTHER -> Block(in.layout, i)

ProseSentences ==
    <<"The mitochondria produces energy for cells.",
      "Photosynthesis converts sunlight into chemical energy.",
      "Why?",
      "alpha beta gamma delta omega">>

\* the sentences picked, in order, none twice
ProsePicks ==
    {p \in UNION {[1..m -> 1..Len(ProseSentences)] : m \in 0..MaxSentences} :
        \A a, b \in 1..Len(p) : a # b => p[a] # p[b]}

\* a text whose second sentence is the lone word the first one starts with:
\* lines 320-336 harvest it as a distractor of the first sentence, and
\* line 342 finds it as a correct phrase
RepeatedWordText ==
    "Photosynthesizing, plants convert sunlight to sugar. Photosynthesizing"

Descriptor(family, n, kind, layout, prefix, suffix, picks) ==
    [family |-> family, n |-> n, kind |-> kind, layout |-> layout,
     prefix |-> prefix, suffix |-> suffix, picks |-> picks]

Inputs ==
    {Descriptor("json", n, "wellFormed", layout, prefix, suffix, <<>>) :
        n \in JsonSizes, layout \in {"compact", "pretty"},
        prefix \in JsonPrefixes, suffix \in JsonSuffixes}
    \cup {Descriptor("json", n, kind, "compact", "", "", <<>>) :
        n \in JsonSizes, kind \in JsonKinds \ {"wellFormed"}}
    \cup {Descriptor("structured", n, "", layout, "", "", <<>>) :
        n \in 0..MaxBlocks, layout \in StructuredLayouts}
    \cup {Descriptor("structured", 2, phrase, "phrased", "", "", <<>>) :
        phrase \in MarkerPhrases}
    \cup {Descriptor("structured", 2, "", "sameQuestion", "", "", <<>>),
          Descriptor("structured", 2, "", "blankLine", QuotingPrefix, "", <<>>)}
    \cup {Descriptor("prose", Len(p), "", "", "", "", p) : p \in ProsePicks}
    \cup {Descriptor("prose", 0, "", "", RepeatedWordText, "", <<>>)}

TextOf(in) ==
    CASE in.family = "json" ->
            in.prefix \o stringifyArray(JsonArray(in.kind, in.n), in.layout) \o in.suffix
      [] in.family = "structured" ->
            in.prefix \o
            joinStrings([i \in 1..in.n |-> BlockOf(in, i)],
                        IF in.layout = "tight" THEN "\n" ELSE "\n\n")
      [] OTHER -> in.prefix \o
                  joinStrings([i \in 1..Len(in.picks) |-> ProseSentences[in.picks[i]]], " ")

(***************************************************************************)
(* State                                                                   *)
(***************************************************************************)
VARIABLES
    input,       \* how the text was made (Inputs)
    mcqText,     \* the argument text
    entry,       \* the function called
    count,       \* the count createFallbackQuestionsFromText is / would be called with
    pc,          \* "Idle", "TryJSON", "TryStructuredText", "Fallback", "Catch", "Done"
    tape,        \* the random source of this call (-1: Math.random was not called)
    tiers,       \* the tiers run so far in this call, in order
    accepted,    \* the questions the structured-text loop accumulated (-1: not run)
    located,     \* what each pass of the structured-text loop read, in order
    made,        \* what each sentence record of the fallback generator was made of
    caught,      \* an exception was raised in the try block and caught
    outcome,     \* "none", "returned", "threw"
    result,      \* the returned array
    run,         \* 1: first call on the text, 2: second call on the same text
    prevTape, prevTiers, prevResult, prevMade   \* what the first call had

vars == <<input, mcqText, entry, count, pc, tape, tiers, accepted, located, made, caught,
          outcome, result, run, prevTape, prevTiers, prevResult, prevMade>>

Init ==
    /\ input \in Inputs
    /\ mcqText = TextOf(input)
    /\ entry = "none"
    /\ count = COUNT
    /\ pc = "Idle"
    /\ tape = -1
    /\ tiers = <<>>
    /\ accepted = -1
    /\ located = <<>>
    /\ made = <<>>
    /\ caught = FALSE
    /\ outcome = "none"
    /\ result = <<>>
    /\ run = 1
    /\ prevTape = -1
    /\ prevTiers = <<>>
    /\ prevResult = <<>>
    /\ prevMade = <<>>

\* parseMCQQuestions(mcqText) is called (line 240)
CallParse ==
    /\ pc = "Idle"
    /\ entry' = "parseMCQQuestions"
    /\ pc' = "TryJSON"
    /\ UNCHANGED <<input, made, mcqText, count, tape, tiers, accepted, located, caught, outcome, result,
                   run, prevTape, prevTiers, prevResult, prevMade>>

\* createFallbackQuestionsFromText(text, count) is called on its own (line
\* 306), on a prose text
CallFallback ==
    /\ pc = "Idle"
    /\ input.family = "prose"
    /\ \E c \in 0..MaxCount : count' = c
    /\ entry' = "createFallbackQuestionsFromText"
    /\ pc' = "Fallback"
    /\ UNCHANGED <<input, made, mcqText, tape, tiers, accepted, located, caught, outcome, result,
                   run, prevTape, prevTiers, prevResult, prevMade>>

\* TryJSON were the returned questions put in a random order: the elements
\* are rotated by a number drawn from the random source
TryJSONShuffled ==
    /\ pc = "TryJSON"
    /\ \E tier \in {jsonTier(mcqText)}, t \in Tapes :
          /\ tiers' = Append(tiers, "json")
          /\ tape' = IF tier.kind = "return" THEN t ELSE tape
          /\ result' = IF tier.kind = "return"
                       THEN SubSeq(tier.questions, floorRandom(t, 0, COUNT) + 1, COUNT)
                            \o SubSeq(tier.questions, 1, floorRandom(t, 0, COUNT))
                       ELSE result
          /\ outcome' = IF tier.kind = "return" THEN "returned" ELSE outcome
          /\ caught' = (tier.kind = "throw")
          /\ pc' = CASE tier.kind = "return" -> "Done"
                     [] tier.kind = "throw" -> "Catch"
                     [] OTHER -> "TryStructuredText"
    /\ UNCHANGED <<input, made, mcqText, entry, count, accepted, located, run,
                   prevTape, prevTiers, prevResult, prevMade>>

\* lines 242-250
TryJSON ==
    /\ pc = "TryJSON"
    /\ \E tier \in {jsonTier(mcqText)} :
          /\ tiers' = Append(tiers, "json")
          /\ CASE tier.kind = "return" ->
                    /\ result' = tier.questions
                    /\ outcome' = "returned"
                    /\ pc' = "Done"
                    /\ caught' = caught
               [] tier.kind = "throw" ->
                    /\ result' = result
                    /\ outcome' = IF exceptionTarget = "Catch" THEN outcome ELSE "threw"
                    /\ pc' = IF exceptionTarget = "Catch" THEN "Catch" ELSE "Done"
                    /\ caught' = (exceptionTarget = "Catch")
               [] OTHER ->
                    /\ pc' = "TryStructuredText"
                    /\ UNCHANGED <<result, outcome, caught>>
    /\ UNCHANGED <<input, made, mcqText, entry, count, tape, accepted, located, run,
                   prevTape, prevTiers, prevResult, prevMade>>

\* lines 252-296
TryStructuredText ==
    /\ pc = "TryStructuredText"
    /\ \E tier \in {structuredTier(mcqText)} :
          /\ tiers' = Append(tiers, "structured")
          /\ accepted' = tier.accepted
          /\ located' = locatedQuestions(mcqText)
          /\ IF tier.kind = "return"
             THEN /\ result' = tier.questions
                  /\ outcome' = "returned"
                  /\ pc' = "Done"
             ELSE /\ pc' = "Fallback"
                  /\ UNCHANGED <<result, outcome>>
    /\ UNCHANGED <<input, made, mcqText, entry, count, tape, caught, run,
                   prevTape, prevTiers, prevResult, prevMade>>

\* line 298, and the body of a direct call; the random source is the one the
\* call meets
Fallback ==
    /\ pc = "Fallback"
    /\ tiers' = Append(tiers, "fallback")
    /\ \E t \in Tapes :
          /\ tape' = t
          /\ \E r \in {fallbackRun(mcqText, count, t)} :
                /\ result' = r.questions
                /\ made' = r.made
    /\ outcome' = "returned"
    /\ pc' = "Done"
    /\ UNCHANGED <<input, mcqText, entry, count, accepted, located, caught, run,
                   prevTape, prevTiers, prevResult, prevMade>>

\* lines 300-303
Catch ==
    /\ pc = "Catch"
    /\ tiers' = Append(tiers, "fallback")
    /\ \E t \in Tapes :
          /\ tape' = t
          /\ \E r \in {fallbackRun(mcqText, count, t)} :
                /\ result' = r.questions
                /\ made' = r.made
    /\ outcome' = "returned"
    /\ pc' = "Done"
    /\ UNCHANGED <<input, mcqText, entry, count, accepted, located, caught, run,
                   prevTape, prevTiers, prevResult, prevMade>>

\* parseMCQQuestions is called again on the same text; the random source it
\* meets need not be the one of the first call
Rerun ==
    /\ pc = "Done"
    /\ entry = "parseMCQQuestions"
    /\ run = 1
    /\ run' = 2
    /\ prevTape' = tape
    /\ prevTiers' = tiers
    /\ prevResult' = result
    /\ prevMade' = made
    /\ tape' = -1
    /\ pc' = "TryJSON"
    /\ tiers' = <<>>
    /\ accepted' = -1
    /\ located' = <<>>
    /\ made' = <<>>
    /\ caught' = FALSE
    /\ outcome' = "none"
    /\ result' = <<>>
    /\ UNCHANGED <<input, mcqText, entry, count>>

Next ==
    \/ CallParse
    \/ CallFallback
    \/ TryJSON
    \/ TryStructuredText
    \/ Fallback
    \/ Catch
    \/ Rerun

Spec == Init /\ [][Next]_vars


(***************************************************************************)
(* Properties                                                              *)
(***************************************************************************)
\* the call has returned to its caller
Returned == pc = "Done" /\ outcome = "returned"

\* parseMCQQuestions has returned
ParseReturned == Returned /\ entry = "parseMCQQuestions"

\* the tier that produced the result
LastTier == IF tiers = <<>> THEN "none" ELSE tiers[Len(tiers)]

\* a value is a non-empty string
IsNonEmptyString(v) == v.t = "string" /\ Len(v.s) > 0

\* a value is an integer in 0..3
IsAnswerIndex(v) == v.t = "number" /\ v.n \in 0..(NumOptions - 1) /\ v.s = IntToString(v.n)

\* a record has exactly 4 options and a correctAnswer in 0..3
IsShaped(q) ==
    /\ Field(q, "options").t = "array"
    /\ Len(Field(q, "options").e) = NumOptions
    /\ IsAnswerIndex(Field(q, "correctAnswer"))

\* a record has a non-empty question and non-empty, pairwise distinct options
IsWellFormed(q) ==
    /\ IsNonEmptyString(Field(q, "question"))
    /\ \A a \in 1..Len(Field(q, "options").e) : IsNonEmptyString(Field(q, "options").e[a])
    /\ \A a, b \in 1..Len(Field(q, "options").e) :
          a # b => Field(q, "options").e[a] # Field(q, "options").e[b]

\* C1 (Totality): whenever parseMCQQuestions has returned, whichever tier
\* produced the result, the result has exactly COUNT (10) records.
C1_Totality == ParseReturned => Len(result) = COUNT

\* C2 (Shape): every record parseMCQQuestions returns, from any tier, has
\* exactly 4 options and a correctAnswer that is an integer in 0..3.
C2_Shape == ParseReturned => \A i \in 1..Len(result) : IsShaped(result[i])

\* C3 (JSON round-trip): when the text holds a valid JSON array of at least
\* COUNT well-formed question objects, with any prose before and after it,
\* parseMCQQuestions returns the first COUNT elements of the array, in order
\* and unmodified.
C3_JsonRoundTrip ==
    (ParseReturned /\ input.family = "json" /\ input.kind = "wellFormed" /\ input.n >= COUNT)
    => result = slice(JsonArray("wellFormed", input.n), COUNT)

\* C4 (Structured-text recovery): for a text of 6 numbered questions, each
\* followed by the option lines A. to D. and a "Correct: B" marker, the
\* structured-text tier returns 6 records, each with the four options in
\* order and correctAnswer 1.
C4_StructuredRecovery ==
    (ParseReturned /\ input.family = "structured" /\ input.n = 6
        /\ input.layout \in {"markerAfter", "markerInline"})
    => /\ LastTier = "structured"
       /\ Len(result) = 6
       /\ \A i \in 1..Len(result) :
             result[i] = QuestionRecord(BlockQuestion(i), <<"a", "b", "c", "d">>, 1)

\* C5 (No failure reaches the caller): no call ends by throwing; a call that
\* has ended has returned a result, also when an exception was raised inside
\* the try block, which the fallback generator then answers with count records.
C5_NoFailureReachesCaller ==
    /\ outcome # "threw"
    /\ pc = "Done" => outcome = "returned"
    /\ (pc = "Done" /\ caught) => (LastTier = "fallback" /\ Len(result) = count)

\* an exception was raised by JSON.parse, caught, and the call has returned
C5_Witness == pc = "Done" /\ caught /\ outcome = "returned" /\ tiers = <<"json", "fallback">>

\* C6 (Tier ordering): the fallback generator runs only after the
\* structured-text parser has run; a JSON parse exception degrades to the
\* structured-text tier, not past it.
C6_TierOrdering ==
    entry = "parseMCQQuestions"
    => \A i \in 1..Len(tiers) :
          tiers[i] = "fallback" => \E j \in 1..(i - 1) : tiers[j] = "structured"

\* the number of sentences of a text that qualify for a question (line 315)
Qualifying(text) == Len(worthySentences(splitSentences(text)))

\* a generic placeholder record at place i (1-based) of the result
IsPlaceholder(q, i) ==
    /\ Field(q, "question") = JString("Question " \o IntToString(i) \o " related to the subject?")
    /\ Field(q, "options") =
          JArray(<<JString("First possible answer"), JString("Second possible answer"),
                   JString("Third possible answer"), JString("Fourth possible answer")>>)

\* C7 (Fallback totality): createFallbackQuestionsFromText(text, count), on
\* any text (empty, without punctuation, JSON or structured text as well) and
\* any count >= 0, returns exactly count records, each with exactly 4 options
\* and a correctAnswer in 0..3; the records after those made of the
\* qualifying sentences are generic placeholders.
C7_FallbackTotality ==
    (pc = "Done" /\ LastTier = "fallback")
    => /\ Len(result) = count
       /\ \A i \in 1..Len(result) : IsShaped(result[i])
       /\ \A i \in 1..Len(result) : i > Qualifying(mcqText) => IsPlaceholder(result[i], i)

\* a direct call on a text with one qualifying sentence and a count of 3: one
\* record of the sentence, two placeholders
C7_Witness ==
    /\ pc = "Done"
    /\ entry = "createFallbackQuestionsFromText"
    /\ input.picks = <<1>>
    /\ count = 3
    /\ Len(result) = 3
    /\ ~IsPlaceholder(result[1], 1)
    /\ IsPlaceholder(result[3], 3)

\* C8 (Per-field well-formedness): every record returned, from any tier, has
\* a non-empty question and four non-empty, pairwise distinct options.
C8_WellFormedFields == Returned => \A i \in 1..Len(result) : IsWellFormed(result[i])

BlockRecord(layout, i) ==
    QuestionRecord(BlockQuestion(i),
                   IF layout = "markerInline" THEN <<"a", "b", "c", "d Correct: B">>
                   ELSE BlockOptions(layout),
                   IF layout \in {"markerBefore", "markerInline"} THEN 1 ELSE 0)

\* C10 (Structured-tier acceptance threshold): when the structured-text scan
\* has run and accumulated k = accepted questions, then with k >= 5 the result
\* is those k questions (at most COUNT) in text order, the fallback tier not
\* run and the random source not consulted; with k < 5 the fallback tier has
\* run and its COUNT records are the result.
C10_AcceptanceThreshold ==
    (pc = "Done" /\ accepted >= 0)
    => IF accepted >= MinStructured
       THEN /\ tiers = <<"json", "structured">>
            /\ tape = -1
            /\ Len(result) = (IF accepted < COUNT THEN accepted ELSE COUNT)
            /\ input.family = "structured"
            /\ \A i \in 1..Len(result) : result[i] = BlockRecord(input.layout, i)
       ELSE /\ tiers = <<"json", "structured", "fallback">>
            /\ tape \in Tapes
            /\ Len(result) = COUNT
            /\ \A i \in 1..Len(result) :
                  Field(result[i], "question").s \notin {BlockQuestion(b) : b \in 1..MaxBlocks}

\* 7 questions were accumulated and returned, with no top-up to COUNT
C10_Witness ==
    /\ pc = "Done"
    /\ accepted = 7
    /\ Len(result) = 7
    /\ tiers = <<"json", "structured">>

\* the index of an option letter: A = 0, B = 1, C = 2, D = 3
LetterIndex(letter) == IndexOfFrom("ABCD", letter, 1) - 1

\* the letter a marker phrase names: its last character
MarkerLetter(phrase) == At(phrase, Len(phrase))

\* C11 (Correct-answer marker mapping): for every accepted structured-text
\* question whose options zone holds one marker "correct [answer] [is] [:] X",
\* correctAnswer is the index of X (A = 0, B = 1, C = 2, D = 3); with no marker
\* in the zone it is 0.
C11_MarkerMapping ==
    input.family = "structured"
    => \A i \in 1..Len(located) :
          located[i].pushed =>
             located[i].correctAnswer =
                CASE input.layout = "phrased" -> LetterIndex(MarkerLetter(input.kind))
                  [] input.layout \in {"markerBefore", "markerInline"} -> LetterIndex("B")
                  [] OTHER -> 0

\* the text of the i-th block behind its question, up to the next numbered
\* item or blank line: between tight blocks the newline before the next
\* number belongs to it
ZoneOfBlock(in, i) ==
    SubSeq(BlockOf(in, i),
           Len(IntToString(i)) + Len(". ") + Len(QuestionOfBlock(in, i)) + 1,
           Len(BlockOf(in, i)))
    \o (IF in.layout = "tight" /\ i < in.n THEN "\n" ELSE "")

\* C12 (Options zone locality): the options zone of each located question is
\* the text from the end of that question's own occurrence to the next
\* numbered item or blank line, also when the question text occurs earlier in
\* the input; two located questions never share the zone of the first one.
C12_ZoneLocality ==
    input.family = "structured"
    => \A i \in 1..Len(located) :
          /\ located[i].questionText = QuestionOfBlock(input, i)
          /\ located[i].optionsText = ZoneOfBlock(input, i)

\* a line of the form "A." .. "D." starts at a
LetteredLineAt(zone, a) ==
    /\ a = 1 \/ At(zone, a - 1) = "\n"
    /\ IsOptionLetter(At(zone, a))
    /\ At(zone, a + 1) = "."

\* the trimmed remainders of the lines that start at starts
RemaindersAt(zone, starts) ==
    [k \in 1..Len(starts) |-> trim(SubSeq(zone, starts[k] + 2, LineEnd(zone, starts[k]) - 1))]

\* the trimmed remainders of the lettered lines of a zone, in order
LetteredLines(zone) ==
    RemaindersAt(zone, Ascending({a \in 1..Len(zone) : LetteredLineAt(zone, a)}))

\* the passes that pushed a question, in order
PushedPasses == Ascending({i \in 1..Len(located) : located[i].pushed})

\* the option strings of a record
OptionStrings(q) == [a \in 1..Len(Field(q, "options").e) |-> Field(q, "options").e[a].s]

\* C13 (Option capture and acceptance): in an options zone every line "A." ..
\* "D." yields one option, its trimmed remainder, the last lettered line
\* included whatever follows it; a question is accepted exactly when at least
\* 4 options were captured, and its record holds the first 4, in order.
C13_OptionCapture ==
    input.family = "structured"
    => /\ \A i \in 1..Len(located) :
             /\ located[i].options = LetteredLines(located[i].optionsText)
             /\ located[i].pushed = (Len(LetteredLines(located[i].optionsText)) >= NumOptions)
       /\ (pc = "Done" /\ LastTier = "structured")
          => \A k \in 1..Len(result) :
                OptionStrings(result[k]) = slice(located[PushedPasses[k]].options, NumOptions)

\* the words of a harvested distractor are taken from the text
IsHarvested(option, text) ==
    \A w \in 1..Len(splitWords(option)) : includes(text, splitWords(option)[w])

\* the distractor list is h harvested distractors, then "Option h+1" .. "Option 3"
IsPaddedHarvest(distractors, text) ==
    /\ Len(distractors) = NumDistractors
    /\ \E h \in 0..NumDistractors :
          /\ \A k \in 1..h : IsHarvested(distractors[k], text)
          /\ \A k \in (h + 1)..NumDistractors :
                distractors[k] = "Option " \o IntToString(k)

\* options is distractors with item put in before the element at place at (0-based)
IsInsertedAt(options, distractors, at, item) ==
    /\ Len(options) = Len(distractors) + 1
    /\ at \in 0..Len(distractors)
    /\ options[at + 1] = item
    /\ \A k \in 1..at : options[k] = distractors[k]
    /\ \A k \in (at + 1)..Len(distractors) : options[k + 1] = distractors[k]

\* the i-th record returned by the fallback generator is the one built from
\* the i-th sentence that was turned into a question
SentenceRecords == 1..Len(made)

\* C14 (Fallback correct index): every sentence-derived record of
\* createFallbackQuestionsFromText has as options the 3-element distractor
\* list (harvested distractors, then "Option k" placeholders) with the chosen
\* correct phrase inserted at a place in 0..3; its correctAnswer is the first
\* place of the correct phrase in that list, so options[correctAnswer] is the
\* chosen phrase, and it is the insertion place whenever no distractor is the
\* same string as the phrase.
C14_FallbackCorrectIndex ==
    (pc = "Done" /\ LastTier = "fallback")
    => /\ Len(made) <= Len(result)
       /\ \A i \in SentenceRecords :
             /\ result[i] = made[i].record
             /\ IsPaddedHarvest(made[i].distractors, mcqText)
             /\ IsInsertedAt(OptionStrings(result[i]), made[i].distractors, made[i].at,
                             made[i].correctOption)
             /\ Field(result[i], "correctAnswer").t = "number"
             /\ Field(result[i], "correctAnswer").n \in 0..made[i].at
             /\ OptionStrings(result[i])[Field(result[i], "correctAnswer").n + 1]
                   = made[i].correctOption
             /\ \A k \in 1..Field(result[i], "correctAnswer").n :
                   OptionStrings(result[i])[k] # made[i].correctOption
             /\ (\A k \in 1..NumDistractors : made[i].distractors[k] # made[i].correctOption)
                => Field(result[i], "correctAnswer").n = made[i].at

\* a sentence record whose correct phrase is also its first distractor: the
\* phrase was inserted at place 1 and correctAnswer is 0
C14_Witness ==
    /\ pc = "Done"
    /\ LastTier = "fallback"
    /\ Len(made) >= 1
    /\ made[1].distractors[1] = made[1].correctOption
    /\ made[1].at = 1
    /\ Field(result[1], "correctAnswer").n = 0

\* two records differ at most in correctAnswer
SameButAnswer(q, r) ==
    /\ Field(q, "question") = Field(r, "question")
    /\ Field(q, "options") = Field(r, "options")

\* C15 (Randomness isolation): two calls of parseMCQQuestions on the same text
\* that meet different random draws select the same tiers and return the same
\* number of records with the same question texts in the same order; when the
\* JSON or the structured-text tier produced the result no draw was made and
\* the outputs are identical; in the fallback tier the draws reach only the
\* choice of the correct phrase, its place among the options, and the
\* correctAnswer of the placeholder records.
C15_RandomnessIsolation ==
    (run = 2 /\ pc = "Done")
    => /\ tiers = prevTiers
       /\ Len(result) = Len(prevResult)
       /\ LastTier \in {"json", "structured"}
          => /\ result = prevResult
             /\ tape = -1
             /\ prevTape = -1
       /\ LastTier = "fallback"
          => /\ tape = prevTape => result = prevResult
             /\ Len(made) = Len(prevMade)
             /\ \A i \in 1..Len(result) :
                   Field(result[i], "question") = Field(prevResult[i], "question")
             /\ \A i \in 1..Len(made) :
                   /\ made[i].distractors = prevMade[i].distractors
                   /\ (/\ made[i].correctOption = prevMade[i].correctOption
                       /\ made[i].at = prevMade[i].at)
                      => result[i] = prevResult[i]
             /\ \A i \in (Len(made) + 1)..Len(result) :
                   SameButAnswer(result[i], prevResult[i])

\* two calls that ended in the fallback tier under different draws: the first
\* sentence record has another correct phrase, and a placeholder record has
\* another correctAnswer
C15_Witness ==
    /\ run = 2
    /\ pc = "Done"
    /\ LastTier = "fallback"
    /\ tape # prevTape
    /\ Len(made) >= 1
    /\ made[1].correctOption # prevMade[1].correctOption
    /\ Len(result) > Len(made)
    /\ result[Len(result)] # prevResult[Len(result)]

================================================================================
